---- MODULE Spec2Model ----
(***************************************************************************)
(* Model of the product tracker's change-detection pipeline:               *)
(*   offer-engine/normalizer.py, offer-engine/main.py   (SpecNorm)         *)
(*   scheduler-service/main.py retry helpers,                              *)
(*   scraper-service/base_scraper.py                    (SpecRetry)        *)
(*   scraper-service/main.py and the platform scrapers  (SpecScrape)       *)
(*   scheduler-service/main.py __main__                 (SpecSched)        *)
(*   scheduler-service/main.py check_products with the                     *)
(*   api-gateway catalog                                (Spec)             *)
(*   the same with DELETE /products/{id} alongside      (SpecDelete)       *)
(*   offer-engine/normalizer.py strip_currency          (SpecCurrency)     *)
(*   api-gateway/main.py track_product, update_product  (SpecGateway)      *)
(*   api-gateway/main.py track_product, concurrently    (SpecTrack)        *)
(***************************************************************************)
EXTENDS Integers, Sequences, FiniteSets, TLC

VARIABLES
    \* offer-engine: one /analyze exchange and direct normalizer calls
    in_offers, in_perm, in_prev, norm_once, norm_perm, norm_twice, resp, resp_perm, npc,
    \* one call of a retrying HTTP helper: the replies the server gives to successive
    \* attempts, and what the helper did with them
    r_helper, r_max_retries, r_replies, r_out, rpc,
    \* scraper-service: one scrape, through POST /scrape or by calling a scraper
    sc_entry, sc_platform, sc_pincode, sc_replies, sc_page, sc_result, spc,
    \* scheduler process: where __main__ is, the executions of the check_products job
    \* in the executor, the interval run times due, and counters
    s_pc, s_instances, s_due, s_ticks, s_skipped, s_completed,
    \* api-gateway: the products table with each product's bank_offers rows
    catalog,
    \* check_products: position, cycle number, the listing fetched, the loop index,
    \* the loop body's locals, and what happened to each item in this cycle
    pc, cycles, products, idx, scrape_data, analyze_data, log,
    \* one call of strip_currency: the argument, the value returned, the position
    cur_value, cur_out, cpc,
    \* api-gateway on its own: the products and users tables, the request being
    \* served with its response, the products table before it, the requests served
    gw_table, gw_users, gw_req, gw_resp, gw_before, gw_count,
    \* track_product in each worker thread: position, request, what it has read
    tk

normVars == <<in_offers, in_perm, in_prev, norm_once, norm_perm, norm_twice, resp, resp_perm, npc>>

retryVars == <<r_helper, r_max_retries, r_replies, r_out, rpc>>

scrapeVars == <<sc_entry, sc_platform, sc_pincode, sc_replies, sc_page, sc_result, spc>>

schedVars == <<s_pc, s_instances, s_due, s_ticks, s_skipped, s_completed>>

cycleVars == <<pc, cycles, products, idx, scrape_data, analyze_data, log>>

mainVars == <<catalog, cycleVars>>

curVars == <<cur_value, cur_out, cpc>>

gwVars == <<gw_table, gw_users, gw_req, gw_resp, gw_before, gw_count, tk>>

vars == <<normVars, retryVars, scrapeVars, schedVars, mainVars, curVars, gwVars>>

\* what the actions of one component leave alone
exceptNorm == <<retryVars, scrapeVars, schedVars, mainVars, curVars, gwVars>>
exceptRetry == <<normVars, scrapeVars, schedVars, mainVars, curVars, gwVars>>
exceptScrape == <<normVars, retryVars, schedVars, mainVars, curVars, gwVars>>
exceptSched == <<normVars, retryVars, scrapeVars, mainVars, curVars, gwVars>>
exceptMain == <<normVars, retryVars, scrapeVars, schedVars, curVars, gwVars>>
exceptCur == <<normVars, retryVars, scrapeVars, schedVars, mainVars, gwVars>>
exceptGw == <<normVars, retryVars, scrapeVars, schedVars, mainVars, curVars>>

(***************************************************************************)
(* Python values.  A str is a sequence of one-character strings; the       *)
(* element "RUPEE" stands for the character U+20B9.  Every value is a      *)
(* record of the same shape so that values of different Python types can   *)
(* be compared.                                                            *)
(***************************************************************************)
PyNone == [t |-> "none", n |-> 0, s |-> <<>>]
PyAbsent == [t |-> "absent", n |-> 0, s |-> <<>>]
PyInt(k) == [t |-> "int", n |-> k, s |-> <<>>]
PyStr(chars) == [t |-> "str", n |-> 0, s |-> chars]
PyBool(b) == [t |-> "bool", n |-> IF b THEN 1 ELSE 0, s |-> <<>>]

Lowers == <<"a","b","c","d","e","f","g","h","i","j","k","l","m",
            "n","o","p","q","r","s","t","u","v","w","x","y","z">>
Uppers == <<"A","B","C","D","E","F","G","H","I","J","K","L","M",
            "N","O","P","Q","R","S","T","U","V","W","X","Y","Z">>
Digits == <<"0","1","2","3","4","5","6","7","8","9">>

IndexIn(c, table) == CHOOSE i \in 1..Len(table) : table[i] = c
IsIn(c, table) == \E i \in 1..Len(table) : table[i] = c

\* ord(c) for the characters the model uses
CodePoint(c) ==
    IF c = " " THEN 32
    ELSE IF c = "," THEN 44
    ELSE IF c = "-" THEN 45
    ELSE IF c = "." THEN 46
    ELSE IF IsIn(c, Digits) THEN 47 + IndexIn(c, Digits)
    ELSE IF IsIn(c, Uppers) THEN 64 + IndexIn(c, Uppers)
    ELSE IF IsIn(c, Lowers) THEN 96 + IndexIn(c, Lowers)
    ELSE 8377

IsSpace(c) == c = " "
ToUpper(c) == IF IsIn(c, Lowers) THEN Uppers[IndexIn(c, Lowers)] ELSE c
ToLower(c) == IF IsIn(c, Uppers) THEN Lowers[IndexIn(c, Uppers)] ELSE c

\* str.upper()
StrUpper(chars) == [i \in 1..Len(chars) |-> ToUpper(chars[i])]

\* str.capitalize(): first character upper-cased, the rest lower-cased
StrCapitalize(chars) ==
    [i \in 1..Len(chars) |-> IF i = 1 THEN ToUpper(chars[i]) ELSE ToLower(chars[i])]

RECURSIVE LStrip(_)
LStrip(chars) ==
    IF chars # <<>> /\ IsSpace(Head(chars)) THEN LStrip(Tail(chars)) ELSE chars

RECURSIVE RStrip(_)
RStrip(chars) ==
    IF chars # <<>> /\ IsSpace(chars[Len(chars)])
    THEN RStrip(SubSeq(chars, 1, Len(chars) - 1))
    ELSE chars

\* str.strip()
StrStrip(chars) == RStrip(LStrip(chars))

\* decimal digits of a natural number, as str() prints them
RECURSIVE NatDigits(_)
NatDigits(k) ==
    IF k < 10 THEN <<Digits[k + 1]>>
    ELSE NatDigits(k \div 10) \o <<Digits[(k % 10) + 1]>>

\* int() of a non-empty string of decimal digits
RECURSIVE ParseInt(_)
ParseInt(chars) ==
    IF chars = <<>> THEN 0
    ELSE 10 * ParseInt(SubSeq(chars, 1, Len(chars) - 1))
         + (IndexIn(chars[Len(chars)], Digits) - 1)

\* str(value)
PyStrOf(v) ==
    IF v.t = "str" THEN v.s
    ELSE IF v.t = "int" THEN (IF v.n < 0 THEN <<"-">> \o NatDigits(0 - v.n) ELSE NatDigits(v.n))
    ELSE IF v.t = "bool" THEN (IF v.n = 1 THEN <<"T","r","u","e">> ELSE <<"F","a","l","s","e">>)
    ELSE <<"N","o","n","e">>

\* bool(value): the truthiness Python's "if value" tests
Truthy(v) ==
    IF v.t = "str" THEN v.s # <<>>
    ELSE IF v.t \in {"int", "bool"} THEN v.n # 0
    ELSE FALSE

\* dict.get(key, default) on a dict whose missing keys hold PyAbsent
DictGet(d, key, default) == IF d[key] = PyAbsent THEN default ELSE d[key]

(***************************************************************************)
(* offer-engine/normalizer.py                                              *)
(***************************************************************************)
NotCurrencyNoise(c) == ~(c = "RUPEE" \/ c = "," \/ IsSpace(c))
IsDigit(c) == IsIn(c, Digits)

strip_currency(value) ==
    IF value = PyNone THEN 0
    ELSE LET text == PyStrOf(value)
             cleaned1 == SelectSeq(text, NotCurrencyNoise)
             cleaned == SelectSeq(cleaned1, IsDigit)
         IN IF cleaned # <<>> THEN ParseInt(cleaned) ELSE 0


OfferKeys == {"bank_name", "card_type", "discount_value", "min_transaction",
              "min_transaction_amount"}

\* sorted() order of the keys a serialized offer can hold (json.dumps sort_keys=True)
SortedKeys == <<"bank_name", "card_type", "discount_value", "min_transaction",
                "min_transaction_amount">>

\* the dict literal of normalize_offers' loop body
NormalizeOne(offer) ==
    [bank_name |-> PyStr(StrUpper(StrStrip(PyStrOf(DictGet(offer, "bank_name", PyStr(<<>>)))))),
     card_type |-> IF Truthy(DictGet(offer, "card_type", PyNone))
                   THEN PyStr(StrCapitalize(StrStrip(PyStrOf(DictGet(offer, "card_type", PyStr(<<>>))))))
                   ELSE PyNone,
     discount_value |-> PyInt(strip_currency(DictGet(offer, "discount_value", PyNone))),
     min_transaction |-> PyAbsent,
     min_transaction_amount |->
         PyInt(strip_currency(DictGet(offer, "min_transaction",
                                      DictGet(offer, "min_transaction_amount", PyNone))))]

\* Python's < on str: lexicographic by code point, a proper prefix is smaller
RECURSIVE StrLess(_, _)
StrLess(a, b) ==
    IF b = <<>> THEN FALSE
    ELSE IF a = <<>> THEN TRUE
    ELSE IF CodePoint(Head(a)) # CodePoint(Head(b)) THEN CodePoint(Head(a)) < CodePoint(Head(b))
    ELSE StrLess(Tail(a), Tail(b))

\* the sort key: (x["bank_name"], x["card_type"] or "")
SortKey(x) == <<x.bank_name.s, IF Truthy(x.card_type) THEN x.card_type.s ELSE <<>> >>

\* Python's < on the key tuples
KeyLess(k1, k2) ==
    IF k1[1] # k2[1] THEN StrLess(k1[1], k2[1]) ELSE StrLess(k1[2], k2[2])

\* list.sort(key=...) is stable: x goes after every element whose key is not greater
RECURSIVE InsertStable(_, _)
InsertStable(sorted, x) ==
    IF sorted = <<>> THEN <<x>>
    ELSE IF KeyLess(SortKey(x), SortKey(Head(sorted))) THEN <<x>> \o sorted
    ELSE <<Head(sorted)>> \o InsertStable(Tail(sorted), x)

RECURSIVE SortByKey(_)
SortByKey(list) ==
    IF list = <<>> THEN <<>>
    ELSE InsertStable(SortByKey(SubSeq(list, 1, Len(list) - 1)), list[Len(list)])

normalize_offers(offers) ==
    SortByKey([i \in 1..Len(offers) |-> NormalizeOne(offers[i])])

\* json.dumps(dict, sort_keys=True): the (key, value) pairs of the keys present,
\* in sorted key order
JsonDumpsOffer(offer) ==
    LET present(k) == offer[k] # PyAbsent
        keys == SelectSeq(SortedKeys, present)
    IN [i \in 1..Len(keys) |-> <<keys[i], offer[keys[i]]>>]

JsonDumpsList(list) == [i \in 1..Len(list) |-> JsonDumpsOffer(list[i])]

\* A digest is modelled by its pre-image: SHA-256 is taken to be collision free.
\* NoHash is the None of an Optional[str] hash.
NoHash == [present |-> FALSE, pre |-> <<>>]
Sha256(serialized) == [present |-> TRUE, pre |-> serialized]

compute_hash(normalized_offers) == Sha256(JsonDumpsList(normalized_offers))


(***************************************************************************)
(* offer-engine/main.py                                                    *)
(***************************************************************************)
\* pydantic's validation of one OfferItem: bank_name is a required str,
\* card_type an optional str
OfferItemValid(o) ==
    /\ o.bank_name.t = "str"
    /\ o.card_type.t \in {"str", "none", "absent"}

\* OfferItem(...).model_dump(): every declared field is present, None when not given
model_dump(o) == [k \in OfferKeys |-> IF o[k] = PyAbsent THEN PyNone ELSE o[k]]

RejectedResponse ==
    [status |-> 422, changed |-> FALSE, change_type |-> "None",
     new_hash |-> NoHash, normalized_offers |-> <<>>]

\* analyze with the first fetch not reported as a change
analyze_firstFetchUnchanged(offers, previous_hash) ==
    IF \E i \in 1..Len(offers) : ~OfferItemValid(offers[i]) THEN RejectedResponse
    ELSE LET raw_offers == [i \in 1..Len(offers) |-> model_dump(offers[i])]
             normalized == normalize_offers(raw_offers)
             new_hash == compute_hash(normalized)
             changed == previous_hash # NoHash /\ new_hash # previous_hash
             change_type == IF changed THEN "BANK_OFFER_UPDATED" ELSE "None"
         IN [status |-> 200, changed |-> changed, change_type |-> change_type,
             new_hash |-> new_hash, normalized_offers |-> normalized]

\* POST /analyze
analyze(offers, previous_hash) ==
    IF \E i \in 1..Len(offers) : ~OfferItemValid(offers[i]) THEN RejectedResponse
    ELSE LET raw_offers == [i \in 1..Len(offers) |-> model_dump(offers[i])]
             normalized == normalize_offers(raw_offers)
             new_hash == compute_hash(normalized)
             changed == new_hash # previous_hash
             change_type == IF changed
                            THEN (IF previous_hash = NoHash THEN "INITIAL_FETCH"
                                  ELSE "BANK_OFFER_UPDATED")
                            ELSE "None"
         IN [status |-> 200, changed |-> changed, change_type |-> change_type,
             new_hash |-> new_hash, normalized_offers |-> normalized]

(***************************************************************************)
(* scheduler-service/main.py http_post_with_retry, http_get_with_retry;    *)
(* scraper-service/base_scraper.py BaseScraper._get_with_retry             *)
(***************************************************************************)
MAX_RETRIES == 3
DEFAULT_MAX_RETRIES == 3

\* what one attempt can meet: a 2xx answer, or one of the failures the helpers'
\* except clause catches (raise_for_status turns 4xx and 5xx into exceptions)
Replies == {"ok", "conn_error", "timeout", "http_5xx", "http_4xx"}
TransientReplies == {"conn_error", "timeout", "http_5xx"}

\* except httpx.HTTPError / except requests.RequestException
CaughtByHelper(reply) == reply \in {"conn_error", "timeout", "http_5xx", "http_4xx"}

BackoffWait_linear(attempt) == attempt + 1

\* wait = 2 ** attempt
BackoffWait(attempt) == 2 ^ attempt

\* for attempt in range(max_retries): try the call, return on success, otherwise
\* remember the exception and sleep; after the loop raise the last exception.
\* attempt counts the attempts already made, waits the sleeps already taken.
RECURSIVE RetryLoop(_, _, _, _)
RetryLoop(replies, max_retries, attempt, waits) ==
    IF attempt >= max_retries
    THEN [result |-> "raised", attempts |-> attempt, waits |-> waits,
          last_exc |-> replies[attempt]]
    ELSE IF CaughtByHelper(replies[attempt + 1])
         THEN RetryLoop(replies, max_retries, attempt + 1,
                        Append(waits, BackoffWait(attempt)))
         ELSE [result |-> "returned", attempts |-> attempt + 1, waits |-> waits,
               last_exc |-> "none"]

http_post_with_retry(replies) == RetryLoop(replies, MAX_RETRIES, 0, <<>>)

http_get_with_retry(replies) == RetryLoop(replies, MAX_RETRIES, 0, <<>>)

\* if max_retries < 1: max_retries = 1
_get_with_retry(replies, max_retries) ==
    RetryLoop(replies, IF max_retries < 1 THEN 1 ELSE max_retries, 0, <<>>)

(***************************************************************************)
(* scraper-service: flipkart_scraper.py, vivo_scraper.py, main.py          *)
(*                                                                         *)
(* A fetched page is described by what its markup holds: the JSON-LD name  *)
(* and price, the first h1 and the title, the text of the first element a  *)
(* price selector matches, the stock and purchase texts, the state of the  *)
(* buy control, the delivery phrases, and the offer-styled sections.       *)
(***************************************************************************)
IsDigitOrComma(c) == IsDigit(c) \/ c = ","
NotComma(c) == c # ","

\* text.split("|")[0]
RECURSIVE BeforeBar(_)
BeforeBar(chars) ==
    IF chars = <<>> \/ Head(chars) = "|" THEN <<>>
    ELSE <<Head(chars)>> \o BeforeBar(Tail(chars))

\* _extract_name: JSON-LD name, then the first h1, then the title up to "|"
ExtractName(page) ==
    IF Truthy(page.jsonld_name) THEN page.jsonld_name
    ELSE IF page.h1 # PyNone THEN PyStr(StrStrip(page.h1.s))
    ELSE IF page.title # PyNone THEN PyStr(StrStrip(BeforeBar(StrStrip(page.title.s))))
    ELSE PyNone

\* the JSON-LD fallback of _extract_price: int(float(str(price))) of a truthy price
JsonLdPrice(page) == IF Truthy(page.jsonld_price) THEN page.jsonld_price ELSE PyNone

\* FlipkartScraper._extract_price: all non-digits of the selector text removed
FlipkartExtractPrice(page) ==
    LET cleaned == IF page.price_text = PyNone THEN <<>>
                   ELSE SelectSeq(StrStrip(page.price_text.s), IsDigit)
    IN IF cleaned # <<>> THEN PyInt(ParseInt(cleaned)) ELSE JsonLdPrice(page)

RECURSIVE DropUntilAmount(_)
DropUntilAmount(chars) ==
    IF chars = <<>> \/ IsDigitOrComma(Head(chars)) THEN chars
    ELSE DropUntilAmount(Tail(chars))

RECURSIVE TakeAmount(_)
TakeAmount(chars) ==
    IF chars = <<>> \/ ~IsDigitOrComma(Head(chars)) THEN <<>>
    ELSE <<Head(chars)>> \o TakeAmount(Tail(chars))

\* VivoScraper._parse_price_text: the first run of digits and commas with an optional
\* fraction of one or two digits, commas removed, float(), round() (half to even)
VivoParsePriceText(text) ==
    IF text = <<>> THEN PyNone
    ELSE LET rest == DropUntilAmount(text)
             run == TakeAmount(rest)
             after == SubSeq(rest, Len(run) + 1, Len(rest))
             hasFrac == Len(after) >= 2 /\ after[1] = "." /\ IsDigit(after[2])
             frac1 == IF hasFrac THEN IndexIn(after[2], Digits) - 1 ELSE 0
             frac2 == IF hasFrac /\ Len(after) >= 3 /\ IsDigit(after[3])
                      THEN IndexIn(after[3], Digits) - 1 ELSE 0
             hundredths == 10 * frac1 + frac2
             whole == SelectSeq(run, NotComma)
             units == ParseInt(whole)
         IN IF run = <<>> THEN PyNone
            ELSE IF whole = <<>> THEN PyNone
            ELSE IF hundredths > 50 \/ (hundredths = 50 /\ units % 2 = 1)
                 THEN PyInt(units + 1)
                 ELSE PyInt(units)

\* VivoScraper._extract_price
VivoExtractPrice(page) ==
    LET parsed == IF page.price_text = PyNone THEN PyNone
                  ELSE VivoParsePriceText(StrStrip(page.price_text.s))
    IN IF parsed # PyNone THEN parsed ELSE JsonLdPrice(page)

\* FlipkartScraper._extract_availability
FlipkartExtractAvailability(page) ==
    IF page.out_of_stock_text THEN PyBool(FALSE)
    ELSE IF page.buy_text THEN PyBool(TRUE)
    ELSE PyNone

\* VivoScraper._extract_availability
VivoExtractAvailability(page) ==
    IF page.buy_control = "enabled" THEN PyBool(TRUE)
    ELSE IF page.out_of_stock_text THEN PyBool(FALSE)
    ELSE IF page.buy_text THEN PyBool(TRUE)
    ELSE PyNone

\* VivoScraper._extract_deliverability
VivoExtractDeliverability(page, pincode) ==
    IF ~page.has_text THEN PyNone
    ELSE IF page.not_deliverable_phrase THEN PyBool(FALSE)
    ELSE IF Truthy(pincode) /\ page.pin_mentioned = pincode /\ page.pin_verdict = "not_deliverable"
         THEN PyBool(FALSE)
    ELSE IF Truthy(pincode) /\ page.pin_mentioned = pincode /\ page.pin_verdict = "deliverable"
         THEN PyBool(TRUE)
    ELSE IF page.deliverable_phrase THEN PyBool(TRUE)
    ELSE PyNone

\* FlipkartScraper._extract_bank_offers: the first ten offer sections, those without a
\* known bank name skipped
FlipkartExtractBankOffers(page) ==
    LET sections == SubSeq(page.offer_sections, 1,
                           IF Len(page.offer_sections) < 10 THEN Len(page.offer_sections) ELSE 10)
        hasBank(sec) == sec.bank_name # PyNone
        named == SelectSeq(sections, hasBank)
    IN [i \in 1..Len(named) |->
           [bank_name |-> PyStr(StrUpper(named[i].bank_name.s)),
            card_type |-> IF named[i].card_type = PyNone THEN PyNone
                          ELSE PyStr(StrCapitalize(named[i].card_type.s)),
            discount_value |-> named[i].discount_value,
            min_transaction |-> PyAbsent,
            min_transaction_amount |-> named[i].min_transaction_amount]]

\* str(exc) of the exception _get_with_retry re-raises
ExcText(last_exc) ==
    IF last_exc \in {"http_4xx", "http_5xx"}
    THEN PyStr(<<"H","T","T","P","E","r","r","o","r">>)
    ELSE IF last_exc = "timeout" THEN PyStr(<<"t","i","m","e","d"," ","o","u","t">>)
    ELSE PyStr(<<"c","o","n","n","e","c","t","i","o","n"," ","f","a","i","l","e","d">>)

\* the call itself fails: an argument the method does not take
ScrapeTypeError ==
    [raised |-> TRUE, product_name |-> PyNone, price |-> PyNone, availability |-> PyNone,
     deliverable |-> PyAbsent, bank_offers |-> <<>>, platform |-> "none", error |-> PyAbsent]

\* FlipkartScraper.scrape(self, url): it takes no pincode
FlipkartScrape(replies, page, pincode) ==
    IF pincode # PyAbsent THEN ScrapeTypeError
    ELSE LET fetch == _get_with_retry(replies, DEFAULT_MAX_RETRIES)
         IN IF fetch.result = "returned"
            THEN [raised |-> FALSE,
                  product_name |-> ExtractName(page),
                  price |-> FlipkartExtractPrice(page),
                  availability |-> FlipkartExtractAvailability(page),
                  deliverable |-> PyAbsent,
                  bank_offers |-> FlipkartExtractBankOffers(page),
                  platform |-> "flipkart",
                  error |-> PyAbsent]
            ELSE [raised |-> FALSE,
                  product_name |-> PyNone, price |-> PyNone, availability |-> PyNone,
                  deliverable |-> PyAbsent, bank_offers |-> <<>>,
                  platform |-> "flipkart",
                  error |-> ExcText(fetch.last_exc)]

\* VivoScraper.scrape(self, url, pincode=None)
VivoScrape(replies, page, pincode) ==
    LET fetch == _get_with_retry(replies, DEFAULT_MAX_RETRIES)
        pin == IF pincode = PyAbsent THEN PyNone ELSE pincode
    IN IF fetch.result = "returned"
       THEN [raised |-> FALSE,
             product_name |-> ExtractName(page),
             price |-> VivoExtractPrice(page),
             availability |-> VivoExtractAvailability(page),
             deliverable |-> VivoExtractDeliverability(page, pin),
             bank_offers |-> <<>>,
             platform |-> "vivo",
             error |-> PyAbsent]
       ELSE [raised |-> FALSE,
             product_name |-> PyNone, price |-> PyNone, availability |-> PyNone,
             deliverable |-> PyNone, bank_offers |-> <<>>,
             platform |-> "vivo",
             error |-> ExcText(fetch.last_exc)]

\* the _scrapers registry
ScraperFor(platform, replies, page, pincode) ==
    IF platform = "flipkart" THEN FlipkartScrape(replies, page, pincode)
    ELSE VivoScrape(replies, page, pincode)

\* str.lower() of the platform tags the model uses
PlatformLower(platform) ==
    IF platform = "Flipkart" THEN "flipkart"
    ELSE IF platform = "VIVO" THEN "vivo"
    ELSE platform

\* POST /scrape {url, platform}: 400 for an unknown platform, otherwise the scraper's
\* result; the scraper is called with the url alone
ScrapeEndpoint(platform, replies, page) ==
    LET lowered == PlatformLower(platform)
    IN IF lowered \notin {"flipkart", "vivo"}
       THEN [status |-> 400, body |-> ScrapeTypeError]
       ELSE LET result == ScraperFor(lowered, replies, page, PyAbsent)
            IN IF result.raised THEN [status |-> 500, body |-> result]
               ELSE [status |-> 200, body |-> result]

(***************************************************************************)
(* api-gateway/main.py, models.py, schemas.py                              *)
(***************************************************************************)
\* normalize_pincode without the length test
normalize_pincode_anyLength(pincode) ==
    IF pincode = PyNone THEN [ok |-> TRUE, value |-> PyNone]
    ELSE LET cleaned == SelectSeq(StrStrip(PyStrOf(pincode)), IsDigit)
         IN IF cleaned = <<>> THEN [ok |-> TRUE, value |-> PyNone]
            ELSE [ok |-> TRUE, value |-> PyStr(cleaned)]

\* normalize_pincode: the digits of the text; None when there are none; HTTP 400
\* unless there are exactly six
normalize_pincode(pincode) ==
    IF pincode = PyNone THEN [ok |-> TRUE, value |-> PyNone]
    ELSE LET cleaned == SelectSeq(StrStrip(PyStrOf(pincode)), IsDigit)
         IN IF cleaned = <<>> THEN [ok |-> TRUE, value |-> PyNone]
            ELSE IF Len(cleaned) # 6 THEN [ok |-> FALSE, value |-> PyNone]
            ELSE [ok |-> TRUE, value |-> PyStr(cleaned)]

\* the product page the model tracks on each platform
UrlOf(platform) ==
    IF platform = "flipkart" THEN "https://www.flipkart.com/phone/p/itm1"
    ELSE IF platform = "vivo" THEN "https://shop.vivo.com/in/product/10"
    ELSE "https://www.amazon.in/dp/B0"

\* a products row as track_product creates it (models.Product), owned by user 1
NewProduct(platform) ==
    [exists |-> TRUE, user_id |-> 1, product_url |-> UrlOf(platform), platform |-> platform,
     product_name |-> PyNone, preferred_pincode |-> PyNone,
     last_price |-> PyNone, last_availability |-> PyNone, last_deliverable |-> PyNone,
     last_available_at |-> PyNone, last_available_price |-> PyNone,
     last_offer_hash |-> NoHash, last_checked_at |-> 0, bank_offers |-> <<>>]

\* a ProductUpdate with no field supplied
EmptyUpdate ==
    [product_name |-> PyNone, preferred_pincode |-> PyNone, last_price |-> PyNone,
     last_availability |-> PyNone, last_deliverable |-> PyNone,
     last_available_at |-> PyNone, last_available_price |-> PyNone,
     last_offer_hash |-> NoHash, bank_offers |-> [supplied |-> FALSE, items |-> <<>>]]

\* the BankOffer row update_product builds from one dict of the payload
BankOfferRow(offer_data) ==
    [bank_name |-> DictGet(offer_data, "bank_name", PyStr(<<>>)),
     card_type |-> DictGet(offer_data, "card_type", PyNone),
     discount_value |-> DictGet(offer_data, "discount_value", PyNone),
     min_transaction_amount |-> DictGet(offer_data, "min_transaction_amount", PyNone),
     offer_hash |-> offer_data.offer_hash]

\* update_product as a full replacement: a field the payload leaves out is reset
update_product_replacesAll(row, payload, now) ==
    IF ~row.exists THEN [status |-> 404, row |-> row]
    ELSE IF ~normalize_pincode(payload.preferred_pincode).ok THEN [status |-> 400, row |-> row]
    ELSE [status |-> 200,
          row |-> [row EXCEPT
              !.product_name = payload.product_name,
              !.preferred_pincode = normalize_pincode(payload.preferred_pincode).value,
              !.last_price = payload.last_price,
              !.last_availability = payload.last_availability,
              !.last_deliverable = payload.last_deliverable,
              !.last_available_at = payload.last_available_at,
              !.last_available_price = payload.last_available_price,
              !.last_offer_hash = payload.last_offer_hash,
              !.last_checked_at = now,
              !.bank_offers = [i \in 1..Len(payload.bank_offers.items) |->
                                  BankOfferRow(payload.bank_offers.items[i])]]]

\* PATCH /products/{id}: 404 for a missing product, 400 for a bad pincode; otherwise
\* every supplied (non-None) field is stored, last_checked_at is stamped, and the
\* bank_offers rows are replaced when a list is supplied
update_product(row, payload, now) ==
    IF ~row.exists THEN [status |-> 404, row |-> row]
    ELSE IF ~normalize_pincode(payload.preferred_pincode).ok THEN [status |-> 400, row |-> row]
    ELSE [status |-> 200,
          row |-> [row EXCEPT
              !.product_name = IF payload.product_name # PyNone
                               THEN payload.product_name ELSE @,
              !.preferred_pincode = IF payload.preferred_pincode # PyNone
                                    THEN normalize_pincode(payload.preferred_pincode).value ELSE @,
              !.last_price = IF payload.last_price # PyNone THEN payload.last_price ELSE @,
              !.last_availability = IF payload.last_availability # PyNone
                                    THEN payload.last_availability ELSE @,
              !.last_deliverable = IF payload.last_deliverable # PyNone
                                   THEN payload.last_deliverable ELSE @,
              !.last_available_at = IF payload.last_available_at # PyNone
                                    THEN payload.last_available_at ELSE @,
              !.last_available_price = IF payload.last_available_price # PyNone
                                       THEN payload.last_available_price ELSE @,
              !.last_offer_hash = IF payload.last_offer_hash # NoHash
                                  THEN payload.last_offer_hash ELSE @,
              !.last_checked_at = now,
              !.bank_offers = IF payload.bank_offers.supplied
                              THEN [i \in 1..Len(payload.bank_offers.items) |->
                                       BankOfferRow(payload.bank_offers.items[i])]
                              ELSE @]]

\* DELETE /products/{id}: 404 for a missing product; otherwise the row goes, and its
\* bank_offers rows with it (cascade)
delete_product(row) ==
    IF ~row.exists THEN [status |-> 404, row |-> row]
    ELSE [status |-> 204, row |-> [NewProduct(row.platform) EXCEPT !.exists = FALSE]]

(***************************************************************************)
(* scheduler-service/main.py check_products                                *)
(***************************************************************************)
\* offers_for_update: each normalized offer with the hash of its own serialization
OffersForUpdate(normalized_offers) ==
    [i \in 1..Len(normalized_offers) |->
        [bank_name |-> normalized_offers[i].bank_name,
         card_type |-> normalized_offers[i].card_type,
         discount_value |-> normalized_offers[i].discount_value,
         min_transaction |-> normalized_offers[i].min_transaction,
         min_transaction_amount |-> normalized_offers[i].min_transaction_amount,
         offer_hash |-> Sha256(JsonDumpsOffer(normalized_offers[i]))]]

\* price_changed = new_price is not None and new_price != product.get("last_price")
PriceChanged(product, scraped) ==
    scraped.price # PyNone /\ scraped.price # product.last_price

\* availability_changed with an unknown availability read as "out of stock"
AvailabilityChanged_unknownIsFalse(product, scraped) ==
    Truthy(scraped.availability) # Truthy(product.last_availability)

\* availability_changed = new_availability is not None and != last_availability
AvailabilityChanged(product, scraped) ==
    scraped.availability # PyNone /\ scraped.availability # product.last_availability

\* patch_payload without the analysis result
PatchPayload_withoutOffers(scraped, analyzed) ==
    [EmptyUpdate EXCEPT
        !.product_name = IF Truthy(scraped.product_name) THEN scraped.product_name ELSE PyNone,
        !.last_price = IF scraped.price # PyNone THEN scraped.price ELSE PyNone,
        !.last_availability = IF scraped.availability # PyNone
                              THEN scraped.availability ELSE PyNone]

\* patch_payload
PatchPayload(scraped, analyzed) ==
    [EmptyUpdate EXCEPT
        !.last_offer_hash = analyzed.new_hash,
        !.bank_offers = [supplied |-> TRUE, items |-> OffersForUpdate(analyzed.normalized_offers)],
        !.product_name = IF Truthy(scraped.product_name) THEN scraped.product_name ELSE PyNone,
        !.last_price = IF scraped.price # PyNone THEN scraped.price ELSE PyNone,
        !.last_availability = IF scraped.availability # PyNone
                              THEN scraped.availability ELSE PyNone]

\* the analyze_data the except clause of step 2 substitutes
AnalyzeFallback(previous_hash) ==
    [status |-> 0, changed |-> FALSE, change_type |-> "None",
     new_hash |-> previous_hash, normalized_offers |-> <<>>]

\* if not (changed or price_changed or availability_changed): continue
NotifyWanted(changed, price_changed, availability_changed) ==
    changed \/ price_changed \/ availability_changed

\* the lines of the notification text after its header
NotificationLines(analyzed, price_changed, availability_changed) ==
    (IF price_changed THEN {"price"} ELSE {})
    \cup (IF availability_changed THEN {"availability"} ELSE {})
    \cup (IF analyzed.changed /\ analyzed.change_type \notin {"None", "INITIAL_FETCH"}
          THEN {"bank_offers"} ELSE {})

OnFailure_notifyUncaught(stage) ==
    IF stage \in {"scrape", "resolve"} THEN "next_item"
    ELSE IF stage = "notify" THEN "abort_cycle"
    ELSE "fall_through"

\* what the except clause around each stage does with a terminal failure:
\* the scrape and the recipient lookup end the item, the other stages go on
OnFailure(stage) ==
    IF stage \in {"scrape", "resolve"} THEN "next_item" ELSE "fall_through"

(***************************************************************************)
(* Inputs of the scraper specification                                     *)
(***************************************************************************)
Pin560001 == PyStr(<<"5","6","0","0","0","1">>)
NamePhone == PyStr(<<"P","h","o","n","e">>)

\* a 200 answer with an empty body
EmptyPage ==
    [jsonld_name |-> PyNone, h1 |-> PyNone, title |-> PyNone,
     price_text |-> PyNone, jsonld_price |-> PyNone,
     out_of_stock_text |-> FALSE, buy_text |-> FALSE, buy_control |-> "none",
     has_text |-> FALSE, not_deliverable_phrase |-> FALSE,
     pin_mentioned |-> PyNone, pin_verdict |-> "none", deliverable_phrase |-> FALSE,
     offer_sections |-> <<>>]

\* markup that holds text but nothing an extractor recognizes
MalformedPage == [EmptyPage EXCEPT !.has_text = TRUE]

\* a product page in stock, with a price element, a delivery line for 560001 and
\* two offer sections, one of them without a bank name
InStockPage ==
    [jsonld_name |-> NamePhone, h1 |-> PyStr(<<" ","P","h","o","n","e"," ">>),
     title |-> PyStr(<<"P","h","o","n","e"," ","|"," ","S","h","o","p">>),
     price_text |-> PyStr(<<"RUPEE","1","2",",","3","4","5",".","5","0">>),
     jsonld_price |-> PyInt(12345),
     out_of_stock_text |-> FALSE, buy_text |-> TRUE, buy_control |-> "enabled",
     has_text |-> TRUE, not_deliverable_phrase |-> FALSE,
     pin_mentioned |-> Pin560001, pin_verdict |-> "deliverable", deliverable_phrase |-> TRUE,
     offer_sections |->
         <<[bank_name |-> PyStr(<<"h","d","f","c">>), card_type |-> PyStr(<<"c","r","e","d","i","t">>),
            discount_value |-> PyInt(500), min_transaction_amount |-> PyInt(2000)],
           [bank_name |-> PyNone, card_type |-> PyNone,
            discount_value |-> PyInt(100), min_transaction_amount |-> PyNone]>>]

\* a page without JSON-LD whose buy control is disabled and that says "out of stock"
OutOfStockPage ==
    [jsonld_name |-> PyNone, h1 |-> PyNone,
     title |-> PyStr(<<"P","h","o","n","e"," ","|"," ","S","h","o","p">>),
     price_text |-> PyNone, jsonld_price |-> PyInt(600),
     out_of_stock_text |-> TRUE, buy_text |-> TRUE, buy_control |-> "disabled",
     has_text |-> TRUE, not_deliverable_phrase |-> TRUE,
     pin_mentioned |-> PyNone, pin_verdict |-> "none", deliverable_phrase |-> TRUE,
     offer_sections |-> <<>>]

Pages == {EmptyPage, MalformedPage, InStockPage, OutOfStockPage}

FetchReplies == {"ok", "timeout", "http_4xx"}

(***************************************************************************)
(* Inputs of the offer-engine specification                                *)
(***************************************************************************)
MaxOffers == 2

RawOffer(bank, card, discount, min_txn, min_txn_amount) ==
    [bank_name |-> bank, card_type |-> card, discount_value |-> discount,
     min_transaction |-> min_txn, min_transaction_amount |-> min_txn_amount]

\* " hdfc " / "credit" / "RUPEE 1,000" / min_transaction "2000"
RawHdfcText ==
    RawOffer(PyStr(<<" ","h","d","f","c"," ">>), PyStr(<<"c","r","e","d","i","t">>),
             PyStr(<<"RUPEE","1",",","0","0","0">>), PyStr(<<"2","0","0","0">>), PyAbsent)
\* what the Flipkart scraper emits: integers, min_transaction_amount
RawHdfcScraped ==
    RawOffer(PyStr(<<"H","D","F","C">>), PyStr(<<"C","r","e","d","i","t">>),
             PyInt(500), PyAbsent, PyInt(2000))
RawSbiNoCard ==
    RawOffer(PyStr(<<"S","B","I">>), PyNone, PyNone, PyAbsent, PyNone)
\* a whitespace-only card type
RawSbiBlankCard ==
    RawOffer(PyStr(<<"s","b","i">>), PyStr(<<" "," ">>),
             PyStr(<<"2",",","0","0","0",".","0","0">>), PyAbsent, PyAbsent)
\* an empty card type
RawAxisEmptyCard ==
    RawOffer(PyStr(<<"A","x","i","s">>), PyStr(<<>>), PyInt(100), PyAbsent, PyAbsent)

RawOfferPool == {RawHdfcText, RawHdfcScraped, RawSbiNoCard, RawSbiBlankCard, RawAxisEmptyCard}

RawLists == UNION {[1..n -> RawOfferPool] : n \in 0..MaxOffers}

PermutationsOf(list) ==
    {[i \in 1..Len(list) |-> list[p[i]]] : p \in Permutations(1..Len(list))}

DumpAll(offers) == [i \in 1..Len(offers) |-> model_dump(offers[i])]

PrevHashes ==
    {NoHash, compute_hash(<<>>), compute_hash(normalize_offers(DumpAll(<<RawHdfcScraped>>)))}

NotCalled == [status |-> 0, changed |-> FALSE, change_type |-> "None",
              new_hash |-> NoHash, normalized_offers |-> <<>>]

\* the values of the variables a specification does not use
RetryNotCalled == [result |-> "none", attempts |-> 0, waits |-> <<>>, last_exc |-> "none"]

NormIdle ==
    /\ in_offers = <<>> /\ in_perm = <<>> /\ in_prev = NoHash
    /\ norm_once = <<>> /\ norm_perm = <<>> /\ norm_twice = <<>>
    /\ resp = NotCalled /\ resp_perm = NotCalled /\ npc = "idle"

RetryIdle ==
    /\ r_helper = "none" /\ r_max_retries = 0 /\ r_replies = <<>>
    /\ r_out = RetryNotCalled /\ rpc = "idle"

ScrapeIdle ==
    /\ sc_entry = "none" /\ sc_platform = "none" /\ sc_pincode = PyAbsent
    /\ sc_replies = <<>> /\ sc_page = EmptyPage
    /\ sc_result = [status |-> 0, body |-> ScrapeTypeError] /\ spc = "idle"

SchedIdle ==
    /\ s_pc = "idle" /\ s_instances = 0 /\ s_due = 0 /\ s_ticks = 0
    /\ s_skipped = 0 /\ s_completed = 0

NoScrape ==
    [raised |-> FALSE, product_name |-> PyNone, price |-> PyNone, availability |-> PyNone,
     deliverable |-> PyAbsent, bank_offers |-> <<>>, platform |-> "none", error |-> PyAbsent]

NoItemLog ==
    [scrape |-> "none", analyze |-> "none", persist |-> "none", decided |-> "none",
     resolve |-> "none", notify |-> "none", change_type |-> "None",
     price_changed |-> FALSE, availability_changed |-> FALSE, lines |-> {},
     scrape_pincode |-> PyAbsent, patches |-> 0, patch |-> EmptyUpdate]

NoCycleLog == [fetch |-> "none", items |-> <<>>]

MainIdle ==
    /\ catalog = <<>> /\ pc = "off" /\ cycles = 0 /\ products = <<>> /\ idx = 0
    /\ scrape_data = NoScrape /\ analyze_data = NotCalled /\ log = NoCycleLog

CurIdle == cur_value = PyNone /\ cur_out = 0 /\ cpc = "idle"

\* no request served yet
NoRequest ==
    [op |-> "none", url |-> "", telegram_user_id |-> "", pincode |-> PyNone,
     id |-> 0, payload |-> EmptyUpdate]

NoResponse == [status |-> 0, id |-> 0]

GwIdle ==
    /\ gw_table = <<>> /\ gw_users = <<>> /\ gw_req = NoRequest /\ gw_resp = NoResponse
    /\ gw_before = <<>> /\ gw_count = 0 /\ tk = <<>>

InitNorm ==
    /\ in_offers \in RawLists
    /\ in_perm \in PermutationsOf(in_offers)
    /\ in_prev \in PrevHashes
    /\ norm_once = <<>>
    /\ norm_perm = <<>>
    /\ norm_twice = <<>>
    /\ resp = NotCalled
    /\ resp_perm = NotCalled
    /\ npc = "start"
    /\ RetryIdle /\ ScrapeIdle /\ SchedIdle /\ MainIdle /\ CurIdle /\ GwIdle

\* normalize_offers(x)
NormCall ==
    /\ npc = "start"
    /\ norm_once' = normalize_offers(in_offers)
    /\ npc' = "normalized"
    /\ UNCHANGED <<in_offers, in_perm, in_prev, norm_perm, norm_twice, resp, resp_perm, exceptNorm>>

\* normalize_offers of a permutation of x
NormPermCall ==
    /\ npc = "normalized"
    /\ norm_perm' = normalize_offers(in_perm)
    /\ npc' = "perm_normalized"
    /\ UNCHANGED <<in_offers, in_perm, in_prev, norm_once, norm_twice, resp, resp_perm, exceptNorm>>

\* normalize_offers(normalize_offers(x))
NormAgainCall ==
    /\ npc = "perm_normalized"
    /\ norm_twice' = normalize_offers(norm_once)
    /\ npc' = "renormalized"
    /\ UNCHANGED <<in_offers, in_perm, in_prev, norm_once, norm_perm, resp, resp_perm, exceptNorm>>

\* POST /analyze {offers, previous_hash}
AnalyzeCall ==
    /\ npc = "renormalized"
    /\ resp' = analyze(in_offers, in_prev)
    /\ npc' = "analyzed"
    /\ UNCHANGED <<in_offers, in_perm, in_prev, norm_once, norm_perm, norm_twice, resp_perm, exceptNorm>>

\* POST /analyze with the same offers in another order and the hash just returned
AnalyzePermCall ==
    /\ npc = "analyzed"
    /\ resp.status = 200
    /\ resp_perm' = analyze(in_perm, resp.new_hash)
    /\ npc' = "reanalyzed"
    /\ UNCHANGED <<in_offers, in_perm, in_prev, norm_once, norm_perm, norm_twice, resp, exceptNorm>>

NextNorm == NormCall \/ NormPermCall \/ NormAgainCall \/ AnalyzeCall \/ AnalyzePermCall

SpecNorm == InitNorm /\ [][NextNorm]_vars


(***************************************************************************)
(* The retry helpers on their own                                          *)
(***************************************************************************)
RetryHelpers == {"http_post_with_retry", "http_get_with_retry", "_get_with_retry"}

InitRetry ==
    /\ r_helper \in RetryHelpers
    /\ r_max_retries \in IF r_helper = "_get_with_retry"
                         THEN {0, DEFAULT_MAX_RETRIES} ELSE {MAX_RETRIES}
    /\ r_replies \in [1..MAX_RETRIES -> Replies]
    /\ r_out = RetryNotCalled
    /\ rpc = "start"
    /\ NormIdle /\ ScrapeIdle /\ SchedIdle /\ MainIdle /\ CurIdle /\ GwIdle

CallPost ==
    /\ rpc = "start" /\ r_helper = "http_post_with_retry"
    /\ r_out' = http_post_with_retry(r_replies)
    /\ rpc' = "done"
    /\ UNCHANGED <<r_helper, r_max_retries, r_replies, exceptRetry>>

CallGet ==
    /\ rpc = "start" /\ r_helper = "http_get_with_retry"
    /\ r_out' = http_get_with_retry(r_replies)
    /\ rpc' = "done"
    /\ UNCHANGED <<r_helper, r_max_retries, r_replies, exceptRetry>>

CallScraperGet ==
    /\ rpc = "start" /\ r_helper = "_get_with_retry"
    /\ r_out' = _get_with_retry(r_replies, r_max_retries)
    /\ rpc' = "done"
    /\ UNCHANGED <<r_helper, r_max_retries, r_replies, exceptRetry>>

NextRetry == CallPost \/ CallGet \/ CallScraperGet

SpecRetry == InitRetry /\ [][NextRetry]_vars

\* the number of attempts the helper is allowed
AllowedAttempts == IF r_max_retries < 1 THEN 1 ELSE r_max_retries

\* C7: when every attempt fails with a transient error the call is attempted exactly
\* maxAttempts (3) times, the waits are 1, 2, 4 seconds, and the caller then sees one
\* terminal failure; a successful attempt returns at once, with no further attempt.
C7_RetryExhaustion ==
    rpc = "done" =>
        /\ (\A i \in 1..AllowedAttempts : r_replies[i] \in TransientReplies) =>
               /\ r_out.result = "raised"
               /\ r_out.attempts = AllowedAttempts
               /\ r_out.waits = [i \in 1..AllowedAttempts |-> 2 ^ (i - 1)]
               /\ AllowedAttempts = 3 => r_out.waits = <<1, 2, 4>>
        /\ \A k \in 1..AllowedAttempts :
               (r_replies[k] = "ok" /\ \A i \in 1..(k - 1) : r_replies[i] \in TransientReplies) =>
                   /\ r_out.result = "returned"
                   /\ r_out.attempts = k
                   /\ r_out.waits = [i \in 1..(k - 1) |-> 2 ^ (i - 1)]

\* three transient failures in a row have exhausted a scheduler helper
C7_Witness ==
    /\ rpc = "done"
    /\ r_helper = "http_post_with_retry"
    /\ r_replies = <<"timeout", "conn_error", "http_5xx">>
    /\ r_out.result = "raised"
    /\ r_out.waits = <<1, 2, 4>>

\* C8: only transient failures are retried: a call answered with a 4xx rejection is
\* attempted exactly once and surfaced to the caller without retry or backoff.
C8_NoRetryOnClientError ==
    (rpc = "done" /\ r_replies[1] = "http_4xx") =>
        /\ r_out.result = "raised"
        /\ r_out.attempts = 1
        /\ r_out.waits = <<>>

(***************************************************************************)
(* The scraper service on its own                                          *)
(***************************************************************************)
InitScrape ==
    /\ sc_entry \in {"service", "direct"}
    /\ sc_platform \in IF sc_entry = "service"
                       THEN {"flipkart", "vivo", "Flipkart", "amazon"}
                       ELSE {"flipkart", "vivo"}
    /\ sc_pincode \in IF sc_entry = "service" THEN {PyAbsent}
                      ELSE {PyAbsent, PyNone, Pin560001}
    /\ sc_replies \in [1..DEFAULT_MAX_RETRIES -> FetchReplies]
    /\ sc_page \in Pages
    /\ sc_result = [status |-> 0, body |-> ScrapeTypeError]
    /\ spc = "start"
    /\ NormIdle /\ RetryIdle /\ SchedIdle /\ MainIdle /\ CurIdle /\ GwIdle

\* POST /scrape
ServiceScrape ==
    /\ spc = "start" /\ sc_entry = "service"
    /\ sc_result' = ScrapeEndpoint(sc_platform, sc_replies, sc_page)
    /\ spc' = "done"
    /\ UNCHANGED <<sc_entry, sc_platform, sc_pincode, sc_replies, sc_page, exceptScrape>>

\* scraper.scrape(url) or scraper.scrape(url, pincode) called on a platform scraper
DirectScrape ==
    /\ spc = "start" /\ sc_entry = "direct"
    /\ sc_result' = [status |-> 0,
                     body |-> ScraperFor(sc_platform, sc_replies, sc_page, sc_pincode)]
    /\ spc' = "done"
    /\ UNCHANGED <<sc_entry, sc_platform, sc_pincode, sc_replies, sc_page, exceptScrape>>

NextScrape == ServiceScrape \/ DirectScrape

SpecScrape == InitScrape /\ [][NextScrape]_vars

\* the page fetch failed on every attempt
FetchFailed == \A i \in 1..DEFAULT_MAX_RETRIES : sc_replies[i] # "ok"

\* C6: scraper failure containment: for every platform scraper and every input
\* (url, optional pincode) scrape raises no exception, and when the fetch fails after
\* its retries or the page is empty or malformed the result has name, price,
\* availability and deliverability null and a non-empty error annotation.
C6_ScraperContainment ==
    (spc = "done" /\ PlatformLower(sc_platform) \in {"flipkart", "vivo"}) =>
        LET r == sc_result.body
        IN /\ ~r.raised
           /\ (FetchFailed \/ sc_page \in {EmptyPage, MalformedPage}) =>
                  /\ r.product_name = PyNone
                  /\ r.price = PyNone
                  /\ r.availability = PyNone
                  /\ r.deliverable \in {PyNone, PyAbsent}
                  /\ r.error.t = "str"
                  /\ r.error.s # <<>>

(***************************************************************************)
(* scheduler-service/main.py __main__: the startup run and the interval    *)
(* job of the BlockingScheduler                                            *)
(***************************************************************************)
MaxTicks == 6

\* add_job(..., max_instances=1, coalesce=True)
max_instances == 1

SubmitAllowed_unlimited(instances) == TRUE

\* the executor accepts a run of the job only below max_instances
SubmitAllowed(instances) == instances < max_instances

\* executions of check_products in progress: the startup run in the main thread
\* and the job's instances in the executor
RunningCycles == (IF s_pc = "startup_run" THEN 1 ELSE 0) + s_instances

InitSched ==
    /\ s_pc = "main_start"
    /\ s_instances = 0 /\ s_due = 0 /\ s_ticks = 0 /\ s_skipped = 0 /\ s_completed = 0
    /\ NormIdle /\ RetryIdle /\ ScrapeIdle /\ MainIdle /\ CurIdle /\ GwIdle

\* check_products() is called in the main thread; the scheduler is not started yet
StartupRunBegin ==
    /\ s_pc = "main_start"
    /\ s_pc' = "startup_run"
    /\ UNCHANGED <<s_instances, s_due, s_ticks, s_skipped, s_completed, exceptSched>>

\* the startup run returns and scheduler.start() takes over the main thread
StartupRunEnd ==
    /\ s_pc = "startup_run"
    /\ s_pc' = "scheduling"
    /\ s_completed' = s_completed + 1
    /\ UNCHANGED <<s_instances, s_due, s_ticks, s_skipped, exceptSched>>

\* the interval elapses: one more run time of the job is due
IntervalElapses ==
    /\ s_pc = "scheduling"
    /\ s_ticks < MaxTicks
    /\ s_ticks' = s_ticks + 1
    /\ s_due' = s_due + 1
    /\ UNCHANGED <<s_pc, s_instances, s_skipped, s_completed, exceptSched>>

\* the scheduler processes the due job: the due run times are coalesced into one
\* run, which the executor starts
ProcessDueStart ==
    /\ s_pc = "scheduling"
    /\ s_due > 0
    /\ SubmitAllowed(s_instances)
    /\ s_instances' = s_instances + 1
    /\ s_due' = 0
    /\ UNCHANGED <<s_pc, s_ticks, s_skipped, s_completed, exceptSched>>

\* ... or refuses because the job already runs max_instances times: the run is skipped
ProcessDueSkip ==
    /\ s_pc = "scheduling"
    /\ s_due > 0
    /\ ~SubmitAllowed(s_instances)
    /\ s_skipped' = s_skipped + 1
    /\ s_due' = 0
    /\ UNCHANGED <<s_pc, s_instances, s_ticks, s_completed, exceptSched>>

\* a run of the job returns
JobEnd ==
    /\ s_instances > 0
    /\ s_instances' = s_instances - 1
    /\ s_completed' = s_completed + 1
    /\ UNCHANGED <<s_pc, s_due, s_ticks, s_skipped, exceptSched>>

NextSched ==
    \/ StartupRunBegin \/ StartupRunEnd \/ IntervalElapses
    \/ ProcessDueStart \/ ProcessDueSkip \/ JobEnd

SpecSched == InitSched /\ [][NextSched]_vars

\* C4: single-flight: across the startup run and every interval trigger at most one
\* execution of check_products is in progress; a trigger that fires while a cycle
\* runs is skipped or coalesced.
C4_SingleFlight ==
    /\ RunningCycles <= 1
    /\ s_skipped + s_completed + s_instances + s_due <= s_ticks + 1

\* a trigger fired while a cycle was running and was skipped
C4_Witness ==
    /\ s_skipped > 0
    /\ s_instances = 1
    /\ RunningCycles = 1

(***************************************************************************)
(* check_products run against the gateway's products table                 *)
(***************************************************************************)
NumProducts == 2

ProductIds == 1..NumProducts

PlatformOf(id) == IF id % 2 = 1 THEN "flipkart" ELSE "vivo"

AllOk == [i \in 1..MAX_RETRIES |-> "ok"]

\* a row as POST /track left it: the Vivo product was tracked with a pincode
TrackedProduct(platform) ==
    [NewProduct(platform) EXCEPT
        !.preferred_pincode = IF platform = "vivo" THEN Pin560001 ELSE PyNone]

\* a row as an earlier cycle left it after the in-stock page was scraped
CheckedProduct(platform) ==
    LET body == ScrapeEndpoint(platform, AllOk, InStockPage).body
        analyzed == analyze(body.bank_offers, NoHash)
    IN update_product(TrackedProduct(platform), PatchPayload(body, analyzed), 0).row

\* the JSON body of the scrape request: {"url": url, "platform": platform}
ScrapeRequestOf(product) ==
    [url |-> product.product_url, platform |-> product.platform, pincode |-> PyAbsent]

\* client.patch is called once, outside the retry helpers
PATCH_ATTEMPTS == 1

\* the answers a collaborator gives to the attempts of one retried call
ReplySeqs ==
    {AllOk,
     <<"timeout", "http_5xx", "ok">>,
     <<"conn_error", "timeout", "http_5xx">>,
     <<"http_4xx", "http_4xx", "http_4xx">>}

\* what the scraper's own fetch of the product page meets
PageFetchSeqs == {AllOk, <<"timeout", "timeout", "timeout">>}

MainPages == {EmptyPage, InStockPage, OutOfStockPage}

\* GET /products without a user filter: every row of the products table
list_products(table) ==
    LET all == [i \in 1..NumProducts |-> [id |-> i, row |-> table[i]]]
        live(p) == p.row.exists
    IN SelectSeq(all, live)

Init ==
    /\ catalog \in {[i \in ProductIds |-> TrackedProduct(PlatformOf(i))],
                    [i \in ProductIds |-> CheckedProduct(PlatformOf(i))]}
    /\ pc = "idle"
    /\ cycles = 0
    /\ products = <<>>
    /\ idx = 0
    /\ scrape_data = NoScrape
    /\ analyze_data = NotCalled
    /\ log = NoCycleLog
    /\ NormIdle /\ RetryIdle /\ ScrapeIdle /\ SchedIdle /\ CurIdle /\ GwIdle

\* the product dict of the current loop iteration
Product == products[idx].row
ProductId == products[idx].id

Logged(field, value) == [log EXCEPT !.items[idx][field] = value]

\* continue, or the end of the loop body: the next product, or the return after the last
NextItem ==
    /\ scrape_data' = NoScrape
    /\ analyze_data' = NotCalled
    /\ IF idx < Len(products)
       THEN pc' = "scrape" /\ idx' = idx + 1
       ELSE pc' = "idle" /\ idx' = 0

\* an exception leaves check_products
AbortCycle ==
    /\ scrape_data' = NoScrape
    /\ analyze_data' = NotCalled
    /\ pc' = "idle" /\ idx' = 0

\* what follows a terminal failure of a stage whose except clause goes on to next_pc
AfterFailure(stage, next_pc) ==
    IF OnFailure(stage) = "next_item" THEN NextItem
    ELSE IF OnFailure(stage) = "abort_cycle" THEN AbortCycle
    ELSE IF next_pc = "end_of_body" THEN NextItem
    ELSE pc' = next_pc /\ UNCHANGED <<idx, scrape_data>>

\* the scheduler (or the startup run) calls check_products: the one call this
\* specification follows, on a table earlier calls may have written
StartCycle ==
    /\ pc = "idle"
    /\ cycles = 0
    /\ cycles' = cycles + 1
    /\ pc' = "fetch_list"
    /\ products' = <<>>
    /\ log' = NoCycleLog
    /\ UNCHANGED <<catalog, idx, scrape_data, analyze_data, exceptMain>>

\* http_get_with_retry(/products) returns the listing
FetchListOk ==
    /\ pc = "fetch_list"
    /\ \E replies \in ReplySeqs : http_get_with_retry(replies).result = "returned"
    /\ products' = list_products(catalog)
    /\ log' = [fetch |-> "ok", items |-> [i \in 1..Len(products') |-> NoItemLog]]
    /\ IF products' = <<>> THEN pc' = "idle" /\ idx' = 0 ELSE pc' = "scrape" /\ idx' = 1
    /\ UNCHANGED <<catalog, cycles, scrape_data, analyze_data, exceptMain>>

\* the listing failure not ending the cycle: the loop runs on the table's rows
FetchListFail_goesOn ==
    /\ pc = "fetch_list"
    /\ products' = list_products(catalog)
    /\ log' = [fetch |-> "failed", items |-> [i \in 1..Len(products') |-> NoItemLog]]
    /\ pc' = "scrape" /\ idx' = 1
    /\ UNCHANGED <<catalog, cycles, scrape_data, analyze_data, exceptMain>>

\* ... or fails after its retries, or its body is not JSON: the function returns
FetchListFail ==
    /\ pc = "fetch_list"
    /\ \E replies \in ReplySeqs, decodable \in BOOLEAN :
           http_get_with_retry(replies).result = "raised" \/ ~decodable
    /\ log' = [fetch |-> "failed", items |-> <<>>]
    /\ pc' = "idle"
    /\ UNCHANGED <<catalog, cycles, products, idx, scrape_data, analyze_data, exceptMain>>

\* step 1: POST /scrape {url, platform} is answered 200 with the scraper's result
ScrapeOk ==
    /\ pc = "scrape"
    /\ \E replies \in ReplySeqs : http_post_with_retry(replies).result = "returned"
    /\ \E page \in MainPages, fetch \in PageFetchSeqs :
           /\ ScrapeEndpoint(ScrapeRequestOf(Product).platform, fetch, page).status = 200
           /\ scrape_data' = ScrapeEndpoint(ScrapeRequestOf(Product).platform, fetch, page).body
    /\ log' = [log EXCEPT !.items[idx].scrape = "ok",
                          !.items[idx].scrape_pincode = ScrapeRequestOf(Product).pincode]
    /\ pc' = "analyze"
    /\ UNCHANGED <<catalog, cycles, products, idx, analyze_data, exceptMain>>

\* ... or fails after its retries
ScrapeFail ==
    /\ pc = "scrape"
    /\ \E replies \in ReplySeqs : http_post_with_retry(replies).result = "raised"
    /\ log' = Logged("scrape", "failed")
    /\ AfterFailure("scrape", "analyze")
    /\ IF pc' = "analyze" THEN analyze_data' = analyze_data ELSE TRUE
    /\ UNCHANGED <<catalog, cycles, products, exceptMain>>

\* step 2: POST /analyze {offers, previous_hash} is answered 200
AnalyzeOk ==
    /\ pc = "analyze"
    /\ \E replies \in ReplySeqs : http_post_with_retry(replies).result = "returned"
    /\ analyze(scrape_data.bank_offers, Product.last_offer_hash).status = 200
    /\ analyze_data' = analyze(scrape_data.bank_offers, Product.last_offer_hash)
    /\ log' = [log EXCEPT !.items[idx].analyze = "ok",
                          !.items[idx].change_type = analyze_data'.change_type]
    /\ pc' = "persist"
    /\ UNCHANGED <<catalog, cycles, products, idx, scrape_data, exceptMain>>

\* ... or fails after its retries (a 422 answer is such a failure): the except
\* clause substitutes the fallback result
AnalyzeFail ==
    /\ pc = "analyze"
    /\ \/ \E replies \in ReplySeqs : http_post_with_retry(replies).result = "raised"
       \/ analyze(scrape_data.bank_offers, Product.last_offer_hash).status # 200
    /\ log' = Logged("analyze", "failed")
    /\ AfterFailure("analyze", "persist")
    /\ IF pc' = "persist" THEN analyze_data' = AnalyzeFallback(Product.last_offer_hash)
       ELSE TRUE
    /\ UNCHANGED <<catalog, cycles, products, exceptMain>>

\* step 3: client.patch(/products/{id}, patch_payload) reaches the gateway, which runs
\* update_product; the status of the answer is not looked at
PersistSent ==
    /\ pc = "persist"
    /\ LET answer == update_product(catalog[ProductId],
                                    PatchPayload(scrape_data, analyze_data), cycles)
       IN /\ catalog' = [catalog EXCEPT ![ProductId] = answer.row]
          /\ log' = [log EXCEPT
                 !.items[idx].persist = IF answer.status = 200 THEN "ok" ELSE "rejected",
                 !.items[idx].patches = @ + PATCH_ATTEMPTS,
                 !.items[idx].patch = PatchPayload(scrape_data, analyze_data)]
    /\ pc' = "decide"
    /\ UNCHANGED <<cycles, products, idx, scrape_data, analyze_data, exceptMain>>

\* ... or the gateway answers with an error status (5xx) and stores nothing: no
\* exception is raised, the answer is dropped
PersistRejected ==
    /\ pc = "persist"
    /\ log' = [log EXCEPT
           !.items[idx].persist = "rejected",
           !.items[idx].patches = @ + PATCH_ATTEMPTS,
           !.items[idx].patch = PatchPayload(scrape_data, analyze_data)]
    /\ pc' = "decide"
    /\ UNCHANGED <<catalog, cycles, products, idx, scrape_data, analyze_data, exceptMain>>

\* ... or the request raises (connection error, timeout): logged
PersistFail ==
    /\ pc = "persist"
    /\ log' = [log EXCEPT
           !.items[idx].persist = "failed",
           !.items[idx].patches = @ + PATCH_ATTEMPTS,
           !.items[idx].patch = PatchPayload(scrape_data, analyze_data)]
    /\ AfterFailure("persist", "decide")
    /\ IF pc' = "decide" THEN analyze_data' = analyze_data ELSE TRUE
    /\ UNCHANGED <<catalog, cycles, products, exceptMain>>

\* step 4: nothing changed: continue
DecideSkip ==
    /\ pc = "decide"
    /\ ~NotifyWanted(analyze_data.changed, PriceChanged(Product, scrape_data),
                     AvailabilityChanged(Product, scrape_data))
    /\ log' = [log EXCEPT !.items[idx].decided = "skip",
                          !.items[idx].price_changed = PriceChanged(Product, scrape_data),
                          !.items[idx].availability_changed =
                              AvailabilityChanged(Product, scrape_data)]
    /\ NextItem
    /\ UNCHANGED <<catalog, cycles, products, exceptMain>>

\* ... or something did: the notification text is built
DecideNotify ==
    /\ pc = "decide"
    /\ NotifyWanted(analyze_data.changed, PriceChanged(Product, scrape_data),
                    AvailabilityChanged(Product, scrape_data))
    /\ log' = [log EXCEPT !.items[idx].decided = "notify",
                          !.items[idx].price_changed = PriceChanged(Product, scrape_data),
                          !.items[idx].availability_changed =
                              AvailabilityChanged(Product, scrape_data),
                          !.items[idx].lines =
                              NotificationLines(analyze_data, PriceChanged(Product, scrape_data),
                                                AvailabilityChanged(Product, scrape_data))]
    /\ pc' = "resolve"
    /\ UNCHANGED <<catalog, cycles, products, idx, scrape_data, analyze_data, exceptMain>>

\* _resolve_telegram_user_id: GET /users/{user_id} is answered 200
ResolveOk ==
    /\ pc = "resolve"
    /\ log' = Logged("resolve", "ok")
    /\ pc' = "notify"
    /\ UNCHANGED <<catalog, cycles, products, idx, scrape_data, analyze_data, exceptMain>>

\* ... or is answered with another status, or raises: None comes back and the item
\* is given up
ResolveFail ==
    /\ pc = "resolve"
    /\ log' = Logged("resolve", "failed")
    /\ AfterFailure("resolve", "notify")
    /\ IF pc' = "notify" THEN analyze_data' = analyze_data ELSE TRUE
    /\ UNCHANGED <<catalog, cycles, products, exceptMain>>

\* http_post_with_retry(BOT_NOTIFY_URL, {chat_id, message}) is accepted
NotifyOk ==
    /\ pc = "notify"
    /\ \E replies \in ReplySeqs : http_post_with_retry(replies).result = "returned"
    /\ log' = Logged("notify", "sent")
    /\ NextItem
    /\ UNCHANGED <<catalog, cycles, products, exceptMain>>

\* ... or fails after its retries: logged
NotifyFail ==
    /\ pc = "notify"
    /\ \E replies \in ReplySeqs : http_post_with_retry(replies).result = "raised"
    /\ log' = Logged("notify", "failed")
    /\ AfterFailure("notify", "end_of_body")
    /\ UNCHANGED <<catalog, cycles, products, exceptMain>>

Next ==
    \/ StartCycle \/ FetchListOk \/ FetchListFail
    \/ ScrapeOk \/ ScrapeFail
    \/ AnalyzeOk \/ AnalyzeFail
    \/ PersistSent \/ PersistRejected \/ PersistFail
    \/ DecideSkip \/ DecideNotify
    \/ ResolveOk \/ ResolveFail
    \/ NotifyOk \/ NotifyFail

Spec == Init /\ [][Next]_vars

\* the items of the listing the running (or finished) cycle works on
Items == 1..Len(log.items)

CycleOver == pc = "idle" /\ cycles > 0 /\ log.fetch = "ok"

\* C1: for every item whose scrape and analyze steps completed and whose notification
\* decision was taken, a notification is wanted if and only if the change type is
\* BANK_OFFER_UPDATED, or the price changed, or the availability changed; an
\* INITIAL_FETCH with neither price nor availability change gives no notification.
C1_NotifyIffRealChange ==
    \A i \in Items :
        (log.items[i].scrape = "ok" /\ log.items[i].analyze = "ok"
            /\ log.items[i].decided # "none")
        => ((log.items[i].decided = "notify")
               <=> (\/ log.items[i].change_type = "BANK_OFFER_UPDATED"
                    \/ log.items[i].price_changed
                    \/ log.items[i].availability_changed))

\* C12: when the listing fetch fails terminally the cycle ends at once: the step
\* that records the failure returns from check_products with no item entered (no
\* scrape, analyze, persist, lookup or notify call) and no catalog record changed.
C12_ListingFailureEndsCycle ==
    [][log'.fetch = "failed" =>
          /\ pc' = "idle"
          /\ log'.items = <<>>
          /\ products' = <<>>
          /\ catalog' = catalog]_vars

\* the listing fetch failed and the cycle is over
C12_Witness ==
    /\ cycles > 0 /\ pc = "idle" /\ log.fetch = "failed"
    /\ \A i \in ProductIds : catalog[i].last_checked_at = 0

\* the loop body is past step 3 for the current item
PastPersist == pc \in {"decide", "resolve", "notify"}

\* C13: persistence is unconditional: every item whose scrape and analysis completed
\* gets exactly one catalog update, issued before its notification decision whether
\* the decision is to notify or to skip, and the update carries the new offer hash
\* and the normalized offers, each with the hash of its own content.
C13_PersistUnconditional ==
    /\ \A i \in Items :
           (log.items[i].scrape = "ok" /\ log.items[i].analyze = "ok") =>
               /\ log.items[i].patches <= 1
               /\ log.items[i].decided # "none" => log.items[i].patches = 1
    /\ (PastPersist /\ log.items[idx].analyze = "ok") =>
           LET sent == log.items[idx].patch
           IN /\ log.items[idx].patches = 1
              /\ sent.last_offer_hash = analyze_data.new_hash
              /\ sent.bank_offers.supplied
              /\ Len(sent.bank_offers.items) = Len(analyze_data.normalized_offers)
              /\ \A k \in 1..Len(sent.bank_offers.items) :
                     /\ sent.bank_offers.items[k].bank_name =
                            analyze_data.normalized_offers[k].bank_name
                     /\ sent.bank_offers.items[k].discount_value =
                            analyze_data.normalized_offers[k].discount_value
                     /\ sent.bank_offers.items[k].offer_hash =
                            Sha256(JsonDumpsOffer(analyze_data.normalized_offers[k]))
              /\ log.items[idx].persist = "ok" =>
                     catalog[ProductId].last_offer_hash = analyze_data.new_hash

\* an item with nothing to notify whose update, carrying an offer, was stored
C13_Witness ==
    \E i \in Items :
        /\ log.items[i].analyze = "ok" /\ log.items[i].decided = "skip"
        /\ log.items[i].patches = 1 /\ log.items[i].persist = "ok"
        /\ Len(log.items[i].patch.bank_offers.items) > 0

\* C15: the bounded retry policy covers the catalog persist call: a persist call
\* that fails is attempted MAX_RETRIES times, and an answer with an error status
\* is treated as a failure, never dropped.
C15_RetryCoversPersist ==
    \A i \in Items :
        /\ log.items[i].persist = "failed" => log.items[i].patches = MAX_RETRIES
        /\ log.items[i].persist # "rejected"

\* C18: when the persist call of an item fails (transport error or error status)
\* the rest of the item is given up: no user lookup and no notification.
C18_PersistFailureAbortsItem ==
    \A i \in Items :
        log.items[i].persist \in {"failed", "rejected"} =>
            /\ log.items[i].resolve = "none"
            /\ log.items[i].notify = "none"

\* C19: deliverability is tracked: the scrape request carries the item's pincode,
\* and a definite deliverability in the scrape result is what the stored update
\* leaves as the item's last_deliverable.
C19_DeliverabilityTracked ==
    /\ \A i \in Items :
           (log.items[i].scrape = "ok" /\ Truthy(products[i].row.preferred_pincode)) =>
               log.items[i].scrape_pincode = products[i].row.preferred_pincode
    /\ (PastPersist /\ log.items[idx].persist = "ok" /\ scrape_data.deliverable.t = "bool") =>
           catalog[ProductId].last_deliverable = scrape_data.deliverable

\* C20: unknown is never a value: a scrape without a price (with unknown
\* availability) gives price_changed (availability_changed) false, the field is
\* not in the update, and the stored value stays what the listing showed; a stored
\* true availability turns false only when the scraper reported false.
C20_UnknownIsNotAValue ==
    /\ \A i \in Items :
           /\ log.items[i].patch.last_price = PyNone =>
                  catalog[products[i].id].last_price = products[i].row.last_price
           /\ log.items[i].patch.last_availability = PyNone =>
                  catalog[products[i].id].last_availability = products[i].row.last_availability
    /\ pc \in {"persist", "decide", "resolve", "notify"} =>
           /\ scrape_data.price = PyNone => ~PriceChanged(Product, scrape_data)
           /\ scrape_data.availability = PyNone => ~AvailabilityChanged(Product, scrape_data)
    /\ PastPersist =>
           /\ scrape_data.price = PyNone =>
                  /\ log.items[idx].patch.last_price = PyNone
                  /\ ~log.items[idx].price_changed
           /\ scrape_data.availability = PyNone =>
                  /\ log.items[idx].patch.last_availability = PyNone
                  /\ ~log.items[idx].availability_changed
           /\ (Product.last_availability = PyBool(TRUE)
                   /\ catalog[ProductId].last_availability = PyBool(FALSE)) =>
                  scrape_data.availability = PyBool(FALSE)

\* a checked product, in stock with a price, whose scrape came back without price
\* and availability and whose update was stored
C20_Witness ==
    /\ pc = "decide" /\ log.items[idx].persist = "ok"
    /\ scrape_data.price = PyNone /\ scrape_data.availability = PyNone
    /\ Product.last_price # PyNone /\ Product.last_availability = PyBool(TRUE)

\* the scrape of the current item came back in-band as a failure: HTTP 200, every
\* field null, no offers, and the error annotation
InBandFailure ==
    /\ ~scrape_data.raised
    /\ scrape_data.error \notin {PyAbsent, PyNone}
    /\ scrape_data.price = PyNone /\ scrape_data.availability = PyNone
    /\ scrape_data.bank_offers = <<>>

\* C21: when the scrape of an item that has stored bank offers comes back as an
\* in-band failure, the cycle leaves the item's stored offer hash and bank offers
\* as they were and puts no "bank offers changed" line in a notification.
C21_InBandFailureLeavesItem ==
    (PastPersist /\ InBandFailure /\ Product.bank_offers # <<>>) =>
        /\ catalog[ProductId].last_offer_hash = Product.last_offer_hash
        /\ catalog[ProductId].bank_offers = Product.bank_offers
        /\ "bank_offers" \notin log.items[idx].lines

\* the stored bank_offers rows of a product as offers again: the offer_hash column
\* left out
StoredOffers(row) ==
    [i \in 1..Len(row.bank_offers) |->
        [k \in OfferKeys |->
            IF k = "min_transaction" THEN PyAbsent ELSE row.bank_offers[i][k]]]

\* C22: once an item's update has been stored, the product's last_offer_hash is
\* compute_hash of its stored bank offers, also when the analyze call failed and
\* the fallback result was used.
C22_HashMatchesStoredOffers ==
    \A i \in Items :
        log.items[i].persist = "ok" =>
            catalog[products[i].id].last_offer_hash =
                compute_hash(StoredOffers(catalog[products[i].id]))

\* C2: cycle isolation: whatever fails at a per-item stage of one item, the loop
\* goes on: when the cycle is over every item of the listing has been scraped, and
\* every item whose scrape was answered has been analyzed, persisted and decided.
C2_CycleIsolation ==
    CycleOver =>
        \A i \in Items :
            /\ log.items[i].scrape # "none"
            /\ log.items[i].scrape = "ok" =>
                   /\ log.items[i].analyze # "none"
                   /\ log.items[i].persist # "none"
                   /\ log.items[i].decided # "none"

\* a finished cycle in which an earlier item failed terminally at some stage and a
\* later item was scraped, analyzed, persisted and decided
C2_Witness ==
    /\ CycleOver
    /\ \E i, j \in Items :
           /\ i < j
           /\ \/ log.items[i].scrape = "failed"
              \/ log.items[i].analyze = "failed"
              \/ log.items[i].persist = "failed"
              \/ log.items[i].resolve = "failed"
              \/ log.items[i].notify = "failed"
           /\ log.items[j].scrape = "ok" /\ log.items[j].analyze = "ok"
           /\ log.items[j].persist = "ok" /\ log.items[j].decided # "none"
    /\ \E i \in Items : log.items[i].notify = "failed" /\ i < Len(log.items)

\* C3: when the scrape or the offer analysis of an item fails terminally, the rest
\* of the item's steps are skipped and its catalog record (price, availability,
\* offer hash, stored bank offers) is what it was before the cycle.
C3_FailedItemUntouched ==
    \A i \in Items :
        (log.items[i].scrape = "failed" \/ log.items[i].analyze = "failed")
        => /\ log.items[i].persist = "none"
           /\ log.items[i].decided = "none"
           /\ catalog[products[i].id].last_price = products[i].row.last_price
           /\ catalog[products[i].id].last_availability = products[i].row.last_availability
           /\ catalog[products[i].id].last_offer_hash = products[i].row.last_offer_hash
           /\ catalog[products[i].id].bank_offers = products[i].row.bank_offers

\* C5: order independence of the offer hash: for a permutation P of a raw list L,
\* compute_hash(normalize_offers(P)) = compute_hash(normalize_offers(L)), and
\* analyze on P with previous_hash the hash obtained for L returns changed = false.
C5_HashOrderIndependent ==
    npc = "reanalyzed" =>
        /\ compute_hash(norm_perm) = compute_hash(norm_once)
        /\ resp_perm.new_hash = resp.new_hash
        /\ resp_perm.changed = FALSE

\* C9: analyze classifies every request: no previous hash gives changed with
\* INITIAL_FETCH (also for the empty list), a different previous hash gives changed
\* with BANK_OFFER_UPDATED, an equal one gives unchanged with no change type, and
\* new_hash is the hash of the normalized offers of the request.
C9_AnalyzeClassification ==
    npc \in {"analyzed", "reanalyzed"} =>
        LET expected == compute_hash(normalize_offers(DumpAll(in_offers)))
        IN /\ resp.status = 200
           /\ resp.new_hash = expected
           /\ resp.normalized_offers = normalize_offers(DumpAll(in_offers))
           /\ in_prev = NoHash => (resp.changed /\ resp.change_type = "INITIAL_FETCH")
           /\ (in_prev # NoHash /\ in_prev # expected) =>
                  (resp.changed /\ resp.change_type = "BANK_OFFER_UPDATED")
           /\ in_prev = expected => (~resp.changed /\ resp.change_type = "None")

\* the first check of an empty offer list has been classified
C9_Witness ==
    /\ npc = "analyzed"
    /\ in_offers = <<>>
    /\ in_prev = NoHash
    /\ resp.change_type = "INITIAL_FETCH"

\* C10: normalization is idempotent: normalize_offers(normalize_offers(x)) is
\* structurally equal to normalize_offers(x), also for absent, empty or
\* whitespace-only card types.
C10_NormalizeIdempotent ==
    npc \in {"renormalized", "analyzed", "reanalyzed"} => norm_twice = norm_once

\* the minimum-transaction amount a raw offer carries, under either of its names
MinTransactionOf(raw) ==
    IF raw.min_transaction \notin {PyAbsent, PyNone} THEN raw.min_transaction
    ELSE IF raw.min_transaction_amount # PyAbsent THEN raw.min_transaction_amount
    ELSE PyNone

\* C17: at the analyze boundary the minimum-transaction amount of each normalized
\* offer is strip_currency of the raw offer's amount, whether the request named it
\* min_transaction or min_transaction_amount (the name the scrapers use).
C17_MinTransactionNormalized ==
    (npc \in {"analyzed", "reanalyzed"} /\ resp.status = 200) =>
        \A i \in 1..Len(in_offers) :
            \E j \in 1..Len(resp.normalized_offers) :
                resp.normalized_offers[j] =
                    [NormalizeOne(in_offers[i]) EXCEPT
                        !.min_transaction_amount =
                            PyInt(strip_currency(MinTransactionOf(in_offers[i])))]

(***************************************************************************)
(* check_products with a user removing a product (DELETE /products/{id})   *)
(* while the cycle runs on the listing it fetched                          *)
(***************************************************************************)
\* DELETE /products/{product_id} for a product the running cycle has listed and
\* not begun to process
DeleteProduct ==
    /\ pc \in {"scrape", "analyze", "persist", "decide", "resolve", "notify"}
    /\ \E i \in 1..Len(products) :
          /\ i > idx \/ (i = idx /\ pc = "scrape")
          /\ delete_product(catalog[products[i].id]).status = 204
          /\ catalog' = [catalog EXCEPT
                            ![products[i].id] = delete_product(catalog[products[i].id]).row]
    /\ UNCHANGED <<cycleVars, exceptMain>>

NextDelete == Next \/ DeleteProduct

SpecDelete == Init /\ [][NextDelete]_vars

\* C24: the cycle sends no notification for a product that was deleted after the
\* listing was fetched and before its item was processed.
C24_NoNotificationForRemoved ==
    \A i \in Items :
        ~catalog[products[i].id].exists => log.items[i].notify # "sent"

(***************************************************************************)
(* offer-engine/normalizer.py strip_currency, called on its own            *)
(***************************************************************************)
MaxCurLen == 3

\* the characters amounts are written with
CurChars == {"RUPEE", "1", "2", "0", ",", ".", " "}

CurTexts == UNION {[1..n -> CurChars] : n \in 0..MaxCurLen}

Text12345 == <<"RUPEE", "1", "2", ",", "3", "4", "5">>
Text2000 == <<"2", ",", "0", "0", "0", ".", "0", "0">>

\* what a JSON offer can carry as an amount: null, an integer, a text
CurValues ==
    {PyNone, PyInt(0), PyInt(500), PyInt(-5), PyStr(Text12345), PyStr(Text2000),
     PyStr(<<"f", "l", "a", "t">>), PyStr(<<"1", "0", "%">>)}
    \cup {PyStr(t) : t \in CurTexts}

InitCurrency ==
    /\ cur_value \in CurValues
    /\ cur_out = 0
    /\ cpc = "start"
    /\ NormIdle /\ RetryIdle /\ ScrapeIdle /\ SchedIdle /\ MainIdle /\ GwIdle

\* strip_currency(value)
StripCall ==
    /\ cpc = "start"
    /\ cur_out' = strip_currency(cur_value)
    /\ cpc' = "done"
    /\ UNCHANGED <<cur_value, exceptCur>>

NextCurrency == StripCall

SpecCurrency == InitCurrency /\ [][NextCurrency]_vars

IsDot(c) == c = "."

\* the characters of a text in front of its first "."
RECURSIVE BeforeDot(_)
BeforeDot(chars) ==
    IF chars = <<>> \/ Head(chars) = "." THEN <<>>
    ELSE <<Head(chars)>> \o BeforeDot(Tail(chars))

\* C11: strip_currency returns a non-negative integer for every input: 0 for an
\* absent value and for a text without digits, 12345 for "RUPEE 12,345", 2000 for
\* "2,000.00"; the digits after a decimal point never become integer digits.
C11_StripCurrency ==
    cpc = "done" =>
        /\ cur_out \in Nat
        /\ cur_value = PyNone => cur_out = 0
        /\ (cur_value.t = "str" /\ SelectSeq(cur_value.s, IsDigit) = <<>>) => cur_out = 0
        /\ cur_value = PyStr(Text12345) => cur_out = 12345
        /\ cur_value = PyStr(Text2000) => cur_out = 2000
        /\ (cur_value.t = "str" /\ Len(SelectSeq(cur_value.s, IsDot)) = 1)
               => cur_out = ParseInt(SelectSeq(BeforeDot(cur_value.s), IsDigit))

(***************************************************************************)
(* api-gateway/main.py: POST /track and PATCH /products/{id} served one    *)
(* after the other against the products and users tables                   *)
(***************************************************************************)
MaxRequests == 3

\* a tracking link as a user pastes it: surrounding blank, upper case, trailing
\* slash, query and fragment
PastedFlipkartUrl == " HTTPS://WWW.Flipkart.com/phone/p/itm1/?pid=X#top"

RawUrls == {UrlOf("flipkart"), PastedFlipkartUrl, UrlOf("vivo"), UrlOf("none")}

\* normalize_product_url on the urls of RawUrls: scheme and host in lower case, the
\* path without its trailing slash, no params, query or fragment
normalize_product_url(url) ==
    IF url = PastedFlipkartUrl THEN UrlOf("flipkart") ELSE url

\* detect_platform on a normalized url: by host, None for any other host
detect_platform(url) ==
    IF url = UrlOf("flipkart") THEN "flipkart"
    ELSE IF url = UrlOf("vivo") THEN "vivo"
    ELSE "None"

TelegramUsers == {"tg1", "tg2"}

Pin110001 == PyStr(<<"1","1","0","0","0","1">>)
PinSpaced == PyStr(<<" ","5","6","0"," ","0","0","1"," ">>)
PinShort == PyStr(<<"5","6","0","0">>)
PinLetters == PyStr(<<"a","b","c">>)

TrackPincodes == {PyNone, PinSpaced, PinShort, PinLetters}

\* User.id of the users row with this telegram_user_id, 0 when there is none
UserIdOf(users, telegram_user_id) ==
    IF \E i \in 1..Len(users) : users[i] = telegram_user_id
    THEN CHOOSE i \in 1..Len(users) : users[i] = telegram_user_id
    ELSE 0

\* POST /track: a bad pincode or an unsupported url is answered 400 before anything
\* is written; a product the user already tracks under the normalized url is
\* returned, with its pincode brought to the request's; otherwise a row is added
track_product(table, users, payload) ==
    LET normalized_url == normalize_product_url(payload.url)
        normalized_pincode == normalize_pincode(payload.pincode)
        platform == detect_platform(normalized_url)
        known == UserIdOf(users, payload.telegram_user_id)
        uid == IF known = 0 THEN Len(users) + 1 ELSE known
        duplicates == {i \in 1..Len(table) :
                          /\ table[i].exists
                          /\ table[i].user_id = uid
                          /\ table[i].product_url = normalized_url}
        existing == CHOOSE i \in duplicates : \A j \in duplicates : i <= j
        product == [NewProduct(platform) EXCEPT
                       !.user_id = uid,
                       !.product_url = normalized_url,
                       !.preferred_pincode = normalized_pincode.value]
    IN  IF ~normalized_pincode.ok
        THEN [status |-> 400, id |-> 0, table |-> table, users |-> users]
        ELSE IF platform = "None"
        THEN [status |-> 400, id |-> 0, table |-> table, users |-> users]
        ELSE IF duplicates # {}
        THEN [status |-> 201, id |-> existing, users |-> users,
              table |-> IF table[existing].preferred_pincode # normalized_pincode.value
                        THEN [table EXCEPT
                                 ![existing].preferred_pincode = normalized_pincode.value]
                        ELSE table]
        ELSE [status |-> 201, id |-> Len(table) + 1,
              table |-> Append(table, product),
              users |-> IF known = 0 THEN Append(users, payload.telegram_user_id)
                        ELSE users]

\* the row with this id, a row that does not exist when the query finds none
RowOf(table, id) ==
    IF id \in 1..Len(table) THEN table[id] ELSE [NewProduct("None") EXCEPT !.exists = FALSE]

\* one offer as the scheduler sends it in bank_offers
HdfcOfferForUpdate == OffersForUpdate(normalize_offers(<<model_dump(RawHdfcText)>>))

UpdatePayloads ==
    {EmptyUpdate,
     [EmptyUpdate EXCEPT !.product_name = PyStr(<<"X","1">>)],
     [EmptyUpdate EXCEPT !.last_price = PyInt(500), !.last_availability = PyBool(FALSE)],
     [EmptyUpdate EXCEPT !.last_deliverable = PyBool(TRUE), !.last_available_at = PyInt(1),
                         !.last_available_price = PyInt(450)],
     [EmptyUpdate EXCEPT !.preferred_pincode = Pin110001],
     [EmptyUpdate EXCEPT !.product_name = PyStr(<<"X","2">>), !.preferred_pincode = PinShort,
                         !.last_price = PyInt(700)],
     [EmptyUpdate EXCEPT !.preferred_pincode = PinLetters],
     [EmptyUpdate EXCEPT !.bank_offers = [supplied |-> TRUE, items |-> <<>>]],
     [EmptyUpdate EXCEPT !.last_offer_hash = Sha256(<<"h">>),
                         !.bank_offers = [supplied |-> TRUE, items |-> HdfcOfferForUpdate]]}

\* ids a PATCH is sent for: rows that may exist, and one past them
UpdateIds == {1, 2}

InitGateway ==
    /\ gw_table = <<>> /\ gw_users = <<>> /\ gw_req = NoRequest /\ gw_resp = NoResponse
    /\ gw_before = <<>> /\ gw_count = 0 /\ tk = <<>>
    /\ NormIdle /\ RetryIdle /\ ScrapeIdle /\ SchedIdle /\ MainIdle /\ CurIdle

\* POST /track
Track ==
    /\ gw_count < MaxRequests
    /\ \E url \in RawUrls, tg \in TelegramUsers, pincode \in TrackPincodes :
          LET payload == [url |-> url, telegram_user_id |-> tg, pincode |-> pincode]
              r == track_product(gw_table, gw_users, payload)
          IN  /\ gw_req' = [NoRequest EXCEPT !.op = "track", !.url = url,
                                             !.telegram_user_id = tg, !.pincode = pincode]
              /\ gw_resp' = [status |-> r.status, id |-> r.id]
              /\ gw_table' = r.table
              /\ gw_users' = r.users
    /\ gw_before' = gw_table
    /\ gw_count' = gw_count + 1
    /\ UNCHANGED <<tk, exceptGw>>

\* PATCH /products/{product_id}; datetime.utcnow() is the number of the request.
\* A request answered 404 or 400 never reaches db.commit(), so what it had assigned
\* to the row object is not stored.
Update ==
    /\ gw_count < MaxRequests
    /\ \E id \in UpdateIds, payload \in UpdatePayloads :
          LET r == update_product(RowOf(gw_table, id), payload, gw_count + 1)
          IN  /\ gw_req' = [NoRequest EXCEPT !.op = "update", !.id = id, !.payload = payload]
              /\ gw_resp' = [status |-> r.status, id |-> id]
              /\ gw_table' = IF r.status = 200 THEN [gw_table EXCEPT ![id] = r.row]
                             ELSE gw_table
    /\ gw_before' = gw_table
    /\ gw_count' = gw_count + 1
    /\ UNCHANGED <<gw_users, tk, exceptGw>>

NextGateway == Track \/ Update

SpecGateway == InitGateway /\ [][NextGateway]_vars

\* the columns a ProductUpdate can set directly
PlainColumns ==
    {"product_name", "last_price", "last_availability", "last_deliverable",
     "last_available_at", "last_available_price"}

\* the columns of a bank_offers row
BankOfferColumns ==
    {"bank_name", "card_type", "discount_value", "min_transaction_amount", "offer_hash"}

\* the columns no ProductUpdate names
FixedColumns == {"exists", "user_id", "product_url", "platform"}

\* C14: a PATCH answered 200 changes exactly what the payload supplies: each
\* supplied column holds the payload's value, every other column and every other
\* row is as before, last_checked_at is the time of this request, and the
\* bank_offers rows are those of the payload when a list came and the old ones
\* otherwise.
C14_PartialUpdate ==
    (gw_req.op = "update" /\ gw_resp.status = 200) =>
        LET before == gw_before[gw_req.id]
            after == gw_table[gw_req.id]
            payload == gw_req.payload
        IN  /\ \A c \in PlainColumns :
                   after[c] = IF payload[c] # PyNone THEN payload[c] ELSE before[c]
            /\ after.last_offer_hash = IF payload.last_offer_hash.present
                                       THEN payload.last_offer_hash
                                       ELSE before.last_offer_hash
            /\ after.preferred_pincode =
                   IF payload.preferred_pincode # PyNone
                   THEN normalize_pincode(payload.preferred_pincode).value
                   ELSE before.preferred_pincode
            /\ \A c \in FixedColumns : after[c] = before[c]
            /\ after.last_checked_at = gw_count
            /\ after.last_checked_at # before.last_checked_at
            /\ IF payload.bank_offers.supplied
               THEN /\ Len(after.bank_offers) = Len(payload.bank_offers.items)
                    /\ \A i \in 1..Len(after.bank_offers) :
                           \A c \in BankOfferColumns :
                               after.bank_offers[i][c] = payload.bank_offers.items[i][c]
               ELSE after.bank_offers = before.bank_offers
            /\ Len(gw_table) = Len(gw_before)
            /\ \A i \in 1..Len(gw_table) : i # gw_req.id => gw_table[i] = gw_before[i]

\* a PATCH that supplies one column only was stored on a row that held a price,
\* offers and a pincode, all of which it kept
C14_Witness ==
    /\ gw_req.op = "update" /\ gw_resp.status = 200
    /\ gw_req.payload.product_name # PyNone
    /\ gw_req.payload.last_price = PyNone
    /\ ~gw_req.payload.bank_offers.supplied
    /\ gw_table[gw_req.id].product_name = gw_req.payload.product_name
    /\ \/ gw_table[gw_req.id].last_price # PyNone
       \/ gw_table[gw_req.id].bank_offers # <<>>
    /\ gw_table[gw_req.id].last_checked_at = gw_count

\* the pincode a request carries
RequestPincode ==
    IF gw_req.op = "track" THEN gw_req.pincode ELSE gw_req.payload.preferred_pincode

DigitCount(pincode) ==
    IF pincode = PyNone THEN 0 ELSE Len(SelectSeq(PyStrOf(pincode), IsDigit))

IsSixDigits(v) ==
    /\ v.t = "str" /\ Len(v.s) = 6
    /\ \A i \in 1..Len(v.s) : IsDigit(v.s[i])

\* C16: every stored preferred_pincode is None or six digits, and a request whose
\* pincode has a number of digits other than 0 and 6 is answered with an error
\* and leaves the products table as it was.
C16_PincodeInvariant ==
    /\ \A i \in 1..Len(gw_table) :
           \/ gw_table[i].preferred_pincode = PyNone
           \/ IsSixDigits(gw_table[i].preferred_pincode)
    /\ (gw_req.op # "none" /\ DigitCount(RequestPincode) \notin {0, 6}) =>
           /\ gw_resp.status >= 400
           /\ gw_table = gw_before

\* a row holds the six-digit pincode taken from a request that wrote it with
\* blanks, and the last request, carrying a four-digit pincode, was refused
C16_Witness ==
    /\ gw_req.op # "none" /\ DigitCount(RequestPincode) = 4
    /\ gw_resp.status = 400
    /\ \E i \in 1..Len(gw_table) : gw_table[i].preferred_pincode = Pin560001

(***************************************************************************)
(* api-gateway/main.py track_product served by several worker threads at   *)
(* once (a def route runs in the thread pool), each with its own session:  *)
(* a query sees what is committed when it runs                             *)
(***************************************************************************)
NumHandlers == 2

Handlers == 1..NumHandlers

HandlerIdle ==
    [pc |-> "idle", url |-> "", telegram_user_id |-> "", pincode |-> PyNone,
     platform |-> "None", new_user |-> FALSE, existing |-> 0, seen_pincode |-> PyNone,
     status |-> 0, id |-> 0]

ConcurrentUrls == {UrlOf("flipkart"), PastedFlipkartUrl, UrlOf("none")}

ConcurrentPincodes == {PyNone, PinSpaced, PinShort}

InitTrack ==
    /\ gw_table = <<>>
    /\ gw_users \in {<<>>, <<"tg1">>}
    /\ gw_req = NoRequest /\ gw_resp = NoResponse /\ gw_before = <<>> /\ gw_count = 0
    /\ tk = [h \in Handlers |-> HandlerIdle]
    /\ NormIdle /\ RetryIdle /\ ScrapeIdle /\ SchedIdle /\ MainIdle /\ CurIdle

\* lines 118-128: the request is validated and the user looked up
TrackBegin(h) ==
    /\ tk[h].pc \in {"idle", "done"}
    /\ gw_count < MaxRequests
    /\ \E url \in ConcurrentUrls, tg \in TelegramUsers, pincode \in ConcurrentPincodes :
          LET normalized_url == normalize_product_url(url)
              normalized_pincode == normalize_pincode(pincode)
              platform == detect_platform(normalized_url)
              request == [HandlerIdle EXCEPT !.url = normalized_url,
                                             !.telegram_user_id = tg,
                                             !.pincode = normalized_pincode.value,
                                             !.platform = platform]
          IN tk' = [tk EXCEPT ![h] =
                 IF ~normalized_pincode.ok \/ platform = "None"
                 THEN [request EXCEPT !.pc = "done", !.status = 400]
                 ELSE IF UserIdOf(gw_users, tg) = 0
                 THEN [request EXCEPT !.pc = "flush"]
                 ELSE [request EXCEPT !.pc = "find"]]
    /\ gw_count' = gw_count + 1
    /\ UNCHANGED <<gw_table, gw_users, gw_req, gw_resp, gw_before, exceptGw>>

\* another session holds an uncommitted users row with this telegram_user_id
UserPending(h, tg) ==
    \E g \in Handlers \ {h} :
        tg = tk[g].telegram_user_id /\ tk[g].new_user /\ tk[g].pc \in {"find", "write"}

\* lines 129-133: db.add(user); db.flush().  telegram_user_id is unique: the INSERT
\* waits for a session that has inserted the same value, and raises once that one
\* is committed (the request ends with status 500)
TrackFlush(h) ==
    /\ tk[h].pc = "flush"
    /\ ~UserPending(h, tk[h].telegram_user_id)
    /\ tk' = [tk EXCEPT ![h] =
           IF UserIdOf(gw_users, tk[h].telegram_user_id) # 0
           THEN [@ EXCEPT !.pc = "done", !.status = 500]
           ELSE [@ EXCEPT !.pc = "find", !.new_user = TRUE]]
    /\ UNCHANGED <<gw_table, gw_users, gw_req, gw_resp, gw_before, gw_count, exceptGw>>

\* lines 136-140: the duplicate query, on the rows committed by now
TrackFind(h) ==
    /\ tk[h].pc = "find"
    /\ LET uid == UserIdOf(gw_users, tk[h].telegram_user_id)
           duplicates == {i \in 1..Len(gw_table) :
                             /\ gw_table[i].exists
                             /\ ~tk[h].new_user
                             /\ gw_table[i].user_id = uid
                             /\ gw_table[i].product_url = tk[h].url}
           first == CHOOSE i \in duplicates : \A j \in duplicates : i <= j
       IN tk' = [tk EXCEPT ![h] =
              IF duplicates = {} THEN [@ EXCEPT !.pc = "write", !.existing = 0]
              ELSE [@ EXCEPT !.pc = "write", !.existing = first,
                             !.seen_pincode = gw_table[first].preferred_pincode]]
    /\ UNCHANGED <<gw_table, gw_users, gw_req, gw_resp, gw_before, gw_count, exceptGw>>

\* lines 141-159: the existing product is returned, its pincode brought to the
\* request's; or a products row is inserted and committed with the new users row
TrackWrite(h) ==
    /\ tk[h].pc = "write"
    /\ LET users_now == IF tk[h].new_user
                        THEN Append(gw_users, tk[h].telegram_user_id) ELSE gw_users
           uid == UserIdOf(users_now, tk[h].telegram_user_id)
           product == [NewProduct(tk[h].platform) EXCEPT
                          !.user_id = uid,
                          !.product_url = tk[h].url,
                          !.preferred_pincode = tk[h].pincode]
       IN IF tk[h].existing # 0
          THEN /\ gw_table' = IF tk[h].seen_pincode # tk[h].pincode
                              THEN [gw_table EXCEPT
                                       ![tk[h].existing].preferred_pincode = tk[h].pincode]
                              ELSE gw_table
               /\ gw_users' = gw_users
               /\ tk' = [tk EXCEPT ![h].pc = "done", ![h].status = 201,
                                   ![h].id = tk[h].existing]
          ELSE /\ gw_table' = Append(gw_table, product)
               /\ gw_users' = users_now
               /\ tk' = [tk EXCEPT ![h].pc = "done", ![h].status = 201,
                                   ![h].id = Len(gw_table) + 1, ![h].new_user = FALSE]
    /\ UNCHANGED <<gw_req, gw_resp, gw_before, gw_count, exceptGw>>

NextTrack ==
    \E h \in Handlers : TrackBegin(h) \/ TrackFlush(h) \/ TrackFind(h) \/ TrackWrite(h)

SpecTrack == InitTrack /\ [][NextTrack]_vars

\* C23: the products table holds at most one row for each user and normalized
\* url, whatever track requests were served, two of them at the same time
\* included.
C23_TrackIdempotent ==
    \A i, j \in 1..Len(gw_table) :
        (gw_table[i].user_id = gw_table[j].user_id
            /\ gw_table[i].product_url = gw_table[j].product_url) => i = j

====
